---- MODULE Spec2Model ----
(***************************************************************************)
(* Model of the bracket / quote / comment / regex scanner of jade-rs      *)
(* (src/brackets.rs) and of the Lexer struct that is to call it           *)
(* (src/lexer.rs).  A text is a sequence of characters, a character is    *)
(* a one-character string.  Option<T> is the empty tuple (None) or a      *)
(* one-element tuple (Some).                                              *)
(***************************************************************************)
EXTENDS Integers, Sequences, FiniteSets, TLC

VARIABLES state, fed, ok, ret,
          maxSrc, maxRes,
          untilSrc, untilDelim, untilStart, untilLineComments, untilRes,
          word, answer,
          ls, lsRet, lsLog

vars == <<state, fed, ok, ret, maxSrc, maxRes,
          untilSrc, untilDelim, untilStart, untilLineComments, untilRes,
          word, answer, ls, lsRet, lsLog>>

streamVars == <<fed, ok, ret>>
maxVars == <<maxSrc, maxRes>>
untilVars == <<untilSrc, untilDelim, untilStart, untilLineComments, untilRes>>
classVars == <<word, answer>>
lexVars == <<ls, lsRet, lsLog>>

\* ---------------------------------------------------------------- bounds

\* longest text consumed char by char
MaxLen == 4
\* longest text one parse_from_state / parse call is given
MaxChunk == 2
\* longest total text fed through successive parse_from_state calls
MaxFed == 4
\* longest text given to parse_max
MaxText == 4
\* longest haystack, needle and largest start offset given to parse_until*
MaxHaystack == 4
MaxNeedle == 1
MaxStart == 1
\* longest text given to the classifiers, the words they know apart
MaxWord == 3
MaxRun == 8
\* longest input of a Lexer, largest amount asked of it, deepest indent
\* stack, longest stash, most calls made on one Lexer
MaxInput == 2
MaxAmt == 2
MaxIndent == 2
MaxStash == 2
MaxCalls == 4

\* ------------------------------------------------------------ characters

None == <<>>
Some(x) == <<x>>

Letters ==
    {"a","b","c","d","e","f","g","h","i","j","k","l","m",
     "n","o","p","q","r","s","t","u","v","w","x","y","z"}
Digits == {"0","1","2","3","4","5","6","7","8","9"}
\* characters whose UTF-8 encoding takes two bytes
TwoByteChars == {"é"}
\* \w of the regex crate: letters, digits, underscore (Unicode aware)
WordChars == Letters \cup Digits \cup {"_"} \cup TwoByteChars
\* char::is_whitespace, as used by trim_right
WhiteSpace == {" ", "\n", "\t", "\r"}

\* number of bytes of a character in a &str
len_utf8(ch) == IF ch \in TwoByteChars THEN 2 ELSE 1

\* ----------------------------------------------------------- classifiers

is_punctuator(ch) ==
    ch \in {".", "(", ")", ";", ",", "{", "}", "[", "]",
            ":", "?", "~", "%", "&", "*", "+", "-",
            "/", "<", ">", "^", "|", "!", "="}

is_keyword(src) ==
       src = <<"i","f">>
    \/ src = <<"i","n">>
    \/ src = <<"d","o">>
    \/ src = <<"v","a","r">>
    \/ src = <<"f","o","r">>
    \/ src = <<"n","e","w">>
    \/ src = <<"t","r","y">>
    \/ src = <<"l","e","t">>
    \/ src = <<"t","h","i","s">>
    \/ src = <<"e","l","s","e">>
    \/ src = <<"c","a","s","e">>
    \/ src = <<"v","o","s","r","c">>
    \/ src = <<"w","i","t","h">>
    \/ src = <<"e","n","u","m">>
    \/ src = <<"w","h","i","l","e">>
    \/ src = <<"b","r","e","a","k">>
    \/ src = <<"c","a","t","c","h">>
    \/ src = <<"t","h","r","o","w">>
    \/ src = <<"c","o","n","s","t">>
    \/ src = <<"y","i","e","l","d">>
    \/ src = <<"c","l","a","s","s">>
    \/ src = <<"s","u","p","e","r">>
    \/ src = <<"r","e","t","u","r","n">>
    \/ src = <<"t","y","p","e","o","f">>
    \/ src = <<"d","e","l","e","t","e">>
    \/ src = <<"s","w","i","t","c","h">>
    \/ src = <<"e","x","p","o","r","t">>
    \/ src = <<"i","m","p","o","r","t">>
    \/ src = <<"d","e","f","a","u","l","t">>
    \/ src = <<"f","i","n","a","l","l","y">>
    \/ src = <<"e","x","t","e","n","d","s">>
    \/ src = <<"f","u","n","c","t","i","o","n">>
    \/ src = <<"c","o","n","t","i","n","u","e">>
    \/ src = <<"d","e","b","u","g","g","e","r">>
    \/ src = <<"p","a","c","k","a","g","e">>
    \/ src = <<"p","r","i","v","a","t","e">>
    \/ src = <<"i","n","t","e","r","f","a","c","e">>
    \/ src = <<"i","n","s","t","a","n","c","e","o","f">>
    \/ src = <<"i","m","p","l","e","m","e","n","t","s">>
    \/ src = <<"p","r","o","t","e","c","t","e","d">>
    \/ src = <<"p","u","b","l","i","c">>
    \/ src = <<"s","t","a","t","i","c">>
    \/ src = <<"y","i","e","l","d">>
    \/ src = <<"l","e","t">>

\* str::trim_right
RECURSIVE trim_right(_)
trim_right(s) ==
    IF s = <<>> THEN s
    ELSE IF s[Len(s)] \in WhiteSpace THEN trim_right(SubSeq(s, 1, Len(s) - 1))
    ELSE s

\* the match of the regex \b\w+$ : the maximal run of word characters that
\* ends the text, None when the text does not end with a word character
RECURSIVE word_at_end(_)
word_at_end(s) ==
    IF s = <<>> \/ s[Len(s)] \notin WordChars THEN <<>>
    ELSE Append(word_at_end(SubSeq(s, 1, Len(s) - 1)), s[Len(s)])

regex_captures(history) ==
    IF word_at_end(history) = <<>> THEN None ELSE Some(word_at_end(history))

is_regexp(src) ==
    LET history == trim_right(src) IN
    IF history = <<>> THEN FALSE
    ELSE LET ch == history[Len(history)] IN
         IF ch = ")" THEN FALSE
         ELSE IF ch = "}" THEN TRUE
         ELSE IF is_punctuator(ch) THEN TRUE
         ELSE LET capture == regex_captures(history) IN
              IF capture # None THEN is_keyword(capture[1]) ELSE FALSE

peek(src) == IF src = <<>> THEN None ELSE Some(src[Len(src)])

\* ------------------------------------------------------------ scan state

default ==
    [line_comment |-> FALSE, block_comment |-> FALSE,
     single_quote |-> FALSE, double_quote |-> FALSE, regexp |-> FALSE,
     escaped |-> FALSE,
     round_depth |-> 0, curly_depth |-> 0, square_depth |-> 0,
     history |-> <<>>, last_char |-> None, src |-> <<>>,
     regexp_start |-> FALSE]

in_string(s) == s.single_quote \/ s.double_quote

in_comment(s) == s.line_comment \/ s.block_comment

\* in_nesting that leaves the comments out
in_nesting_no_comment(s) ==
    \/ in_string(s)
    \/ s.regexp
    \/ s.round_depth > 0
    \/ s.curly_depth > 0
    \/ s.square_depth > 0

in_nesting(s) ==
    \/ in_string(s)
    \/ in_comment(s)
    \/ s.regexp
    \/ s.round_depth > 0
    \/ s.curly_depth > 0
    \/ s.square_depth > 0

\* the body of a string or regex literal: closer, backslash, anything else
\* in_literal with every backslash taken as an escape, an escaped one too
in_literal_backslash_always(s, flag, closer, ch) ==
    IF ch = closer /\ ~s.escaped THEN [s EXCEPT ![flag] = FALSE]
    ELSE IF ch = "\\" THEN [s EXCEPT !.escaped = TRUE]
    ELSE [s EXCEPT !.escaped = FALSE]

\* in_literal with the closer taken whether or not a backslash came before
in_literal_no_escape(s, flag, closer, ch) ==
    IF ch = closer THEN [s EXCEPT ![flag] = FALSE]
    ELSE IF ch = "\\" /\ ~s.escaped THEN [s EXCEPT !.escaped = TRUE]
    ELSE [s EXCEPT !.escaped = FALSE]

in_literal(s, flag, closer, ch) ==
    IF ch = closer /\ ~s.escaped THEN [s EXCEPT ![flag] = FALSE]
    ELSE IF ch = "\\" /\ ~s.escaped THEN [s EXCEPT !.escaped = TRUE]
    ELSE [s EXCEPT !.escaped = FALSE]

\* regexp_start_step that keeps the literal when / or * follows its slash
regexp_start_step_no_cancel(ch, s) ==
    IF s.regexp_start THEN [s EXCEPT !.regexp_start = FALSE] ELSE s

\* regexp_start_step with the literal dropped whatever follows its slash
regexp_start_step_any_char(ch, s) ==
    IF s.regexp_start
    THEN [s EXCEPT !.regexp = FALSE, !.regexp_start = FALSE]
    ELSE s

\* the opening slash of a regex literal was the previous character
regexp_start_step(ch, s) ==
    IF s.regexp_start
    THEN [s EXCEPT !.regexp = IF ch = "/" \/ ch = "*" THEN FALSE ELSE @,
                   !.regexp_start = FALSE]
    ELSE s

\* inside a comment, a string or a regex literal
protected_step(ch, s) ==
    IF s.line_comment THEN
        (IF ch = "\n" THEN [s EXCEPT !.line_comment = FALSE] ELSE s)
    ELSE IF s.block_comment THEN
        (IF s.last_char = Some("*") /\ ch = "/"
         THEN [s EXCEPT !.block_comment = FALSE] ELSE s)
    ELSE IF s.single_quote THEN in_literal(s, "single_quote", "'", ch)
    ELSE IF s.double_quote THEN in_literal(s, "double_quote", "\"", ch)
    ELSE in_literal(s, "regexp", "/", ch)

\* outside of them: a comment, regex or string starts, or a bracket counts
normal_step(ch, s, last_char) ==
    IF last_char = Some("/") /\ ch = "/" THEN
        [s EXCEPT !.history = SubSeq(@, 1, Len(@) - 1), !.line_comment = TRUE]
    ELSE IF last_char = Some("/") /\ ch = "*" THEN
        [s EXCEPT !.history = SubSeq(@, 1, Len(@) - 1), !.block_comment = TRUE]
    ELSE IF ch = "/" /\ is_regexp(s.history) THEN
        [s EXCEPT !.regexp = TRUE, !.regexp_start = TRUE]
    ELSE IF ch = "'" THEN [s EXCEPT !.single_quote = TRUE]
    ELSE IF ch = "\"" THEN [s EXCEPT !.double_quote = TRUE]
    ELSE IF ch = "(" THEN [s EXCEPT !.round_depth = @ + 1]
    ELSE IF ch = ")" THEN [s EXCEPT !.round_depth = @ - 1]
    ELSE IF ch = "{" THEN [s EXCEPT !.curly_depth = @ + 1]
    ELSE IF ch = "}" THEN [s EXCEPT !.curly_depth = @ - 1]
    ELSE IF ch = "[" THEN [s EXCEPT !.square_depth = @ + 1]
    ELSE IF ch = "]" THEN [s EXCEPT !.square_depth = @ - 1]
    ELSE s

\* mode_step with the comment openers tested ahead of the string and regex
\* branches instead of after them
mode_step_comment_first(ch, s, last_char) ==
    IF in_comment(s) THEN protected_step(ch, s)
    ELSE IF last_char = Some("/") /\ (ch = "/" \/ ch = "*")
         THEN normal_step(ch, s, last_char)
    ELSE IF in_string(s) \/ s.regexp THEN protected_step(ch, s)
    ELSE normal_step(ch, s, last_char)

\* mode_step with the line-comment branch reached after the branches of
\* normal mode instead of first
mode_step_line_comment_last(ch, s, last_char) ==
    IF s.block_comment \/ in_string(s) \/ s.regexp THEN protected_step(ch, s)
    ELSE IF s.line_comment /\ normal_step(ch, s, last_char) = s
         THEN protected_step(ch, s)
    ELSE normal_step(ch, s, last_char)

\* mode_step without the regex branch ahead of the bracket branches
mode_step_regexp_unshielded(ch, s, last_char) ==
    IF in_comment(s) \/ in_string(s)
    THEN protected_step(ch, s)
    ELSE normal_step(ch, s, last_char)

\* the if / else-if chain: first branch that applies
mode_step(ch, s, last_char) ==
    IF in_comment(s) \/ in_string(s) \/ s.regexp
    THEN protected_step(ch, s)
    ELSE normal_step(ch, s, last_char)

parse_char_from_state(ch, state0) ==
    LET pushed == [state0 EXCEPT !.src = Append(@, ch)]
        was_comment == in_comment(pushed)
        last_char == peek(pushed.history)
        t == mode_step(ch, regexp_start_step(ch, pushed), last_char)
    IN  IF ~t.block_comment /\ ~t.line_comment /\ ~was_comment
        THEN [t EXCEPT !.history = Append(@, ch)]
        ELSE t

parse_char(ch) == parse_char_from_state(ch, default)

\* the state after feeding a whole text char by char, no depth check
RECURSIVE scan(_, _)
scan(text, s) ==
    IF text = <<>> THEN s
    ELSE LET next == parse_char_from_state(Head(text), s) IN
         \* the test makes TLC compute next before it goes on
         IF Len(next.src) > Len(s.src) THEN scan(Tail(text), next) ELSE next

negative_depth(s) ==
    s.round_depth < 0 \/ s.curly_depth < 0 \/ s.square_depth < 0

\* parse_from_state with the depth test made after each character instead
\* of before it
RECURSIVE parse_from_state_test_after(_, _)
parse_from_state_test_after(src, s) ==
    IF src = <<>> THEN [ok |-> TRUE, state |-> s]
    ELSE LET next == parse_char_from_state(Head(src), s) IN
         IF negative_depth(next) THEN [ok |-> FALSE, state |-> next]
         ELSE parse_from_state_test_after(Tail(src), next)

\* parse_from_state with the depth test made once, ahead of the loop
parse_from_state_hoisted(src, s) ==
    IF src # <<>> /\ negative_depth(s)
    THEN [ok |-> FALSE, state |-> s]
    ELSE [ok |-> TRUE, state |-> scan(src, s)]

\* returns the bool and the state it leaves behind
RECURSIVE parse_from_state(_, _)
parse_from_state(src, s) ==
    IF src = <<>> THEN [ok |-> TRUE, state |-> s]
    ELSE IF negative_depth(s) THEN [ok |-> FALSE, state |-> s]
    ELSE parse_from_state(Tail(src), parse_char_from_state(Head(src), s))

parse(src) ==
    LET r == parse_from_state(src, default) IN
    IF r.ok THEN Some(r.state) ELSE None

\* -------------------------------------------------------------- extractors

NoBlock == [kind |-> "None"]
Panic == [kind |-> "Panic"]
BracketBlock(start, end, src) ==
    [kind |-> "Some", start |-> start, end |-> end, src |-> src]

\* byte offset of the k-th character boundary of a &str (k characters precede)
RECURSIVE byte_offset(_, _)
byte_offset(s, k) ==
    IF k = 0 THEN 0 ELSE byte_offset(s, k - 1) + len_utf8(s[k])

\* &s[a..b]: a range of byte offsets, which must lie on character boundaries
str_index(s, a, b) ==
    LET at(x) == {k \in 0..Len(s) : byte_offset(s, k) = x} IN
    IF a <= b /\ at(a) # {} /\ at(b) # {}
    THEN [panic |-> FALSE,
          str |-> SubSeq(s, (CHOOSE k \in at(a) : TRUE) + 1,
                            CHOOSE k \in at(b) : TRUE)]
    ELSE [panic |-> TRUE, str |-> <<>>]

\* a range of character positions; panics beyond the end of the string
slice_chars(s, begin, end) ==
    IF begin <= end /\ begin <= Len(s) /\ end <= Len(s)
    THEN [panic |-> FALSE, str |-> SubSeq(s, begin + 1, end)]
    ELSE [panic |-> TRUE, str |-> <<>>]

RECURSIVE parse_max_loop(_, _, _)
parse_max_loop(src, pos, s) ==
    IF ~negative_depth(s)
    THEN IF pos < Len(src)
         THEN parse_max_loop(src, pos + 1,
                             parse_char_from_state(src[pos + 1], s))
         ELSE NoBlock
    ELSE LET slice == str_index(src, 0, pos - 1) IN
         IF slice.panic THEN Panic
         ELSE BracketBlock(0, pos - 1, slice.str)

parse_max(src) == parse_max_loop(src, 0, default)

starts_with(src, start, i) ==
    LET end == i + Len(start) IN
    IF end >= Len(src) THEN FALSE
    ELSE LET slice == slice_chars(src, i, i + Len(start)) IN
         ~slice.panic /\ slice.str = start

\* parse_until_loop that does not hold back inside a string
RECURSIVE parse_until_loop_no_string(_, _, _, _, _, _)
parse_until_loop_no_string(src, delimiter, start, line_comments, idx, s) ==
    IF \/ s.regexp
       \/ s.block_comment
       \/ (~line_comments /\ s.line_comment)
       \/ ~starts_with(src, delimiter, idx)
    THEN IF idx + Len(delimiter) >= Len(src) THEN NoBlock
         ELSE parse_until_loop_no_string(src, delimiter, start, line_comments,
                  idx + 1, parse_char_from_state(src[idx + 1], s))
    ELSE LET slice == slice_chars(src, start, idx) IN
         IF slice.panic THEN Panic
         ELSE BracketBlock(start, idx, slice.str)

RECURSIVE parse_until_loop(_, _, _, _, _, _)
parse_until_loop(src, delimiter, start, line_comments, idx, s) ==
    IF \/ in_string(s)
       \/ s.regexp
       \/ s.block_comment
       \/ (~line_comments /\ s.line_comment)
       \/ ~starts_with(src, delimiter, idx)
    THEN IF idx + Len(delimiter) >= Len(src) THEN NoBlock
         ELSE parse_until_loop(src, delimiter, start, line_comments,
                  idx + 1, parse_char_from_state(src[idx + 1], s))
    ELSE LET slice == slice_chars(src, start, idx) IN
         IF slice.panic THEN Panic
         ELSE BracketBlock(start, idx, slice.str)

parse_until_with_options(src, delimiter, start, line_comments) ==
    parse_until_loop(src, delimiter, start, line_comments, start, default)

parse_until(src, delimiter) ==
    parse_until_with_options(src, delimiter, 0, FALSE)

\* ---------------------------------------------------------------- inputs

\* the texts of the test suite
depth_change_first ==
    <<"f", "o", "o", "(", "a", "r", "g", "1", ",", " ", "a", "r", "g", "2", ",", " ", "{", "\n", " ", " ", "f", "o", "o", ":", " ", "[", "a", ",", " ", "b", "\n">>
depth_change_second ==
    <<" ", " ", " ", " ", "c", ",", " ", "d", "]", "\n", " ", " ", " ", "}", ")">>
bracketed_section ==
    <<"f", "o", "o", "=", "\"", "(", "\"", ",", " ", "b", "a", "r", "=", "\"", "}", "\"", ")", " ", "b", "i", "n", "g", " ", "b", "o", "n", "g">>
delimeter_haystack ==
    <<"f", "o", "o", ".", "b", "a", "r", "(", "\"", "%", ">", "\"", ")", ".", "b", "a", "z", "%", ">", " ", "b", "i", "n", "g", " ", "b", "o", "n", "g">>
regex_section ==
    <<"f", "o", "o", "=", "/", "\\", "/", "/", "g", ",", " ", "b", "a", "r", "=", "\"", "}", "\"", ")", " ", "b", "i", "n", "g", " ", "b", "o", "n", "g">>
regex_section_typeof ==
    <<"f", "o", "o", " ", "=", " ", "t", "y", "p", "e", "o", "f", " ", "/", "\\", "/", "/", "g", ",", " ", "b", "a", "r", "=", "\"", "}", "\"", ")", " ", "b", "i", "n", "g", " ", "b", "o", "n", "g">>
block_comment_section ==
    <<"/", "*", " ", ")", " ", "*", "/", ")", " ", "b", "i", "n", "g", " ", "b", "o", "n", "g">>

NotCalled == [kind |-> "NotCalled"]

\* all texts of at most n characters over an alphabet
RECURSIVE Texts(_, _)
Texts(alphabet, n) ==
    IF n = 0 THEN {<<>>}
    ELSE LET shorter == Texts(alphabet, n - 1) IN
         shorter \cup {Append(t, c) : t \in shorter, c \in alphabet}

CharAlphabet ==
    {"(", ")", "{", "}", "[", "]", "/", "*", "\\", "'", "\"", "\n"}

\* ------------------------------------------- char by char (parse_char_*)

\* -------------------------------------------------------------- the Lexer

Token(token_type, line_number) ==
    [token_type |-> token_type, line_number |-> line_number]

TokenResult(token, input_increment, line_increment) ==
    [token |-> token, input_increment |-> input_increment,
     line_increment |-> line_increment]

new_with_option(input, filename) ==
    [input |-> input, filename |-> filename, position |-> 0,
     deferred_tokens |-> <<>>, last_indents |-> 0, line_number |-> 1,
     stash |-> <<>>, indent_stack |-> <<>>, pipeless |-> FALSE]

new(input) == new_with_option(input, None)

\* str::len, in bytes
len(s) == byte_offset(s, Len(s))

tok(self, token_type) == Token(token_type, self.line_number)

\* consume with the slice taken at the new position and after it
consume_slice_ahead(self, amt) ==
    LET moved == [self EXCEPT !.position = @ + amt]
        slice == str_index(self.input, moved.position, moved.position + amt)
    IN  [ls |-> moved,
         ret |-> IF slice.panic THEN Panic
                 ELSE [kind |-> "str", value |-> slice.str]]

\* the lexer as the call leaves it and what the call returns
consume(self, amt) ==
    LET moved == [self EXCEPT !.position = @ + amt]
        slice == str_index(self.input, moved.position - amt, moved.position)
    IN  [ls |-> moved,
         ret |-> IF slice.panic THEN Panic
                 ELSE [kind |-> "str", value |-> slice.str]]

\* the placeholder body: a token, the lexer untouched
next(self) == tok(self, "Outdent")

\* eos that reports the end of source with indents still open
eos_no_outdent(self) ==
    IF self.position # len(self.input) THEN [ls |-> self, ret |-> None]
    ELSE [ls |-> self,
          ret |-> Some(TokenResult(tok(self, "EndOfSource"), 0, 0))]

eos(self) ==
    IF self.position # len(self.input) THEN [ls |-> self, ret |-> None]
    ELSE IF Len(self.indent_stack) > 0
    THEN [ls |-> [self EXCEPT !.indent_stack = SubSeq(@, 1, Len(@) - 1)],
          ret |-> Some(TokenResult(tok(self, "Outdent"), 0, 0))]
    ELSE [ls |-> self,
          ret |-> Some(TokenResult(tok(self, "EndOfSource"), 0, 0))]

\* amt - self.stash.len() below zero: the overflow check of a debug build
\* panics; a release build wraps to a count near 2^64 and the loop pushes
\* tokens until memory runs out
Builds == {"debug", "release"}
OutOfMemory == [kind |-> "OutOfMemory"]

lookahead(self, amt, build) ==
    IF amt < Len(self.stash)
    THEN [ls |-> self, ret |-> IF build = "debug" THEN Panic ELSE OutOfMemory]
    ELSE LET n == amt - Len(self.stash)
             \* for _ in 1..len
             pushed == [i \in 1..(n - 1) |-> next(self)]
             filled == [self EXCEPT !.stash = @ \o pushed]
         IN  [ls |-> filled,
              \* &self.stash[amt-1]
              ret |-> IF amt >= 1 /\ amt <= Len(filled.stash)
                      THEN [kind |-> "Token", value |-> filled.stash[amt]]
                      ELSE Panic]

\* no Lexer in use
NoLexer == ls = new(<<>>) /\ lsRet = NotCalled /\ lsLog = <<>>

Idle ==
    /\ fed = <<>> /\ ok = TRUE /\ ret = NotCalled
    /\ maxSrc = <<>> /\ maxRes = NotCalled
    /\ untilSrc = <<>> /\ untilDelim = <<>> /\ untilStart = 0
    /\ untilLineComments = FALSE /\ untilRes = NotCalled
    /\ word = <<>> /\ answer = NotCalled

Init ==
    /\ state = default
    /\ Idle
    /\ NoLexer

CallParseCharFromState(ch) ==
    /\ Len(state.src) < MaxLen
    /\ state' = parse_char_from_state(ch, state)
    /\ UNCHANGED <<streamVars, maxVars, untilVars, classVars, lexVars>>

CallParseChar(ch) ==
    /\ state' = parse_char(ch)
    /\ UNCHANGED <<streamVars, maxVars, untilVars, classVars, lexVars>>

Next ==
    \/ \E ch \in CharAlphabet : CallParseCharFromState(ch)
    \/ \E ch \in CharAlphabet : CallParseChar(ch)

Spec == Init /\ [][Next]_vars

\* ------------------------------------ chunk by chunk (parse_from_state)

StreamAlphabet == {"(", ")", "'", "/", "\n"}

InitStream == Init

\* the texts fed stay short, but for the second call of depth_change_calc
CallParseFromState(chunk) ==
    /\ \/ Len(fed) + Len(chunk) <= MaxFed
       \/ (fed = depth_change_first /\ chunk = depth_change_second)
    /\ LET r == parse_from_state(chunk, state) IN
        /\ state' = r.state
        /\ ret' = [kind |-> "bool", value |-> r.ok]
        /\ ok' = (ok /\ r.ok)
    /\ fed' = fed \o chunk
    /\ UNCHANGED <<maxVars, untilVars, classVars, lexVars>>

\* a caller that begins its scan with parse and keeps the state returned,
\* as tests::depth_change_calc
CallParse(text) ==
    /\ ret = NotCalled
    /\ LET r == parse(text) IN
        /\ ret' = [kind |-> "Option", value |-> r, src |-> text]
        /\ IF r # None
           THEN state' = r[1] /\ fed' = text /\ ok' = TRUE
           ELSE UNCHANGED <<state, fed, ok>>
    /\ UNCHANGED <<maxVars, untilVars, classVars, lexVars>>

StreamTexts == Texts(StreamAlphabet, MaxChunk)

NextStream ==
    \/ \E chunk \in StreamTexts \cup {depth_change_second} :
           CallParseFromState(chunk)
    \/ \E text \in StreamTexts \cup {depth_change_first} : CallParse(text)

SpecStream == InitStream /\ [][NextStream]_vars

\* ------------------------------------------------------------ parse_max

MaxAlphabet == {"(", ")", "}", "[", "'", "/", "\n", "é"}

InitMax ==
    /\ state = default
    /\ fed = <<>> /\ ok = TRUE /\ ret = NotCalled
    /\ maxSrc \in Texts(MaxAlphabet, MaxText)
           \cup {bracketed_section, regex_section, regex_section_typeof,
                 block_comment_section}
    /\ maxRes = NotCalled
    /\ untilSrc = <<>> /\ untilDelim = <<>> /\ untilStart = 0
    /\ untilLineComments = FALSE /\ untilRes = NotCalled
    /\ word = <<>> /\ answer = NotCalled
    /\ NoLexer

CallParseMax ==
    /\ maxRes = NotCalled
    /\ maxRes' = parse_max(maxSrc)
    /\ UNCHANGED <<state, streamVars, maxSrc, untilVars, classVars, lexVars>>

NextMax == CallParseMax

SpecMax == InitMax /\ [][NextMax]_vars

\* ---------------------------------------------------------- parse_until*

UntilAlphabet == {"/", "*", "x", "'", "\n", "="}
NeedleAlphabet == {"x", "/"}

InitUntil ==
    /\ state = default
    /\ fed = <<>> /\ ok = TRUE /\ ret = NotCalled
    /\ maxSrc = <<>> /\ maxRes = NotCalled
    /\ \E call \in
           (Texts(UntilAlphabet, MaxHaystack) \X Texts(NeedleAlphabet, MaxNeedle))
           \cup {<<delimeter_haystack, <<"%", ">">>>>} :
               untilSrc = call[1] /\ untilDelim = call[2]
    /\ untilStart \in 0..MaxStart
    /\ untilLineComments \in BOOLEAN
    /\ untilRes = NotCalled
    /\ word = <<>> /\ answer = NotCalled
    /\ NoLexer

CallParseUntilWithOptions ==
    /\ untilRes = NotCalled
    /\ untilRes' = parse_until_with_options(untilSrc, untilDelim, untilStart,
                                            untilLineComments)
    /\ UNCHANGED <<state, streamVars, maxVars, classVars,
                   untilSrc, untilDelim, untilStart, untilLineComments, lexVars>>

\* parse_until searches from the start, without the line comment option
CallParseUntil ==
    /\ untilRes = NotCalled
    /\ untilRes' = parse_until(untilSrc, untilDelim)
    /\ untilStart' = 0
    /\ untilLineComments' = FALSE
    /\ UNCHANGED <<state, streamVars, maxVars, classVars, untilSrc, untilDelim, lexVars>>

NextUntil ==
    \/ CallParseUntilWithOptions
    \/ CallParseUntil

SpecUntil == InitUntil /\ [][NextUntil]_vars

\* ---------------------------------------------------------- classifiers

\* the words is_keyword compares with, and some it does not know
Words ==
    {<<"i","f">>, <<"i","n">>, <<"d","o">>, <<"v","a","r">>,
     <<"f","o","r">>, <<"n","e","w">>, <<"t","r","y">>, <<"l","e","t">>,
     <<"t","h","i","s">>, <<"e","l","s","e">>, <<"c","a","s","e">>,
     <<"v","o","s","r","c">>, <<"w","i","t","h">>, <<"e","n","u","m">>,
     <<"w","h","i","l","e">>, <<"b","r","e","a","k">>,
     <<"c","a","t","c","h">>, <<"t","h","r","o","w">>,
     <<"c","o","n","s","t">>, <<"y","i","e","l","d">>,
     <<"c","l","a","s","s">>, <<"s","u","p","e","r">>,
     <<"r","e","t","u","r","n">>, <<"t","y","p","e","o","f">>,
     <<"d","e","l","e","t","e">>, <<"s","w","i","t","c","h">>,
     <<"e","x","p","o","r","t">>, <<"i","m","p","o","r","t">>,
     <<"d","e","f","a","u","l","t">>, <<"f","i","n","a","l","l","y">>,
     <<"e","x","t","e","n","d","s">>, <<"f","u","n","c","t","i","o","n">>,
     <<"c","o","n","t","i","n","u","e">>,
     <<"d","e","b","u","g","g","e","r">>, <<"p","a","c","k","a","g","e">>,
     <<"p","r","i","v","a","t","e">>,
     <<"i","n","t","e","r","f","a","c","e">>,
     <<"i","n","s","t","a","n","c","e","o","f">>,
     <<"i","m","p","l","e","m","e","n","t","s">>,
     <<"p","r","o","t","e","c","t","e","d">>, <<"p","u","b","l","i","c">>,
     <<"s","t","a","t","i","c">>, <<"v","o","i","d">>, <<"f","o","o">>,
     <<"i">>}

ClassifyAlphabet == {")", "}", "=", " ", "\"", "i", "f"}

\* short texts, and the words alone, after other text and before blanks
ClassifyTexts ==
    Texts(ClassifyAlphabet, MaxWord)
        \cup {before \o w \o after :
                 before \in {<<>>, <<"(">>, <<"x">>, <<"x", " ">>},
                 w \in Words,
                 after \in {<<>>, <<" ">>, <<" ", "\n">>}}

InitClassify ==
    /\ state = default
    /\ fed = <<>> /\ ok = TRUE /\ ret = NotCalled
    /\ maxSrc = <<>> /\ maxRes = NotCalled
    /\ untilSrc = <<>> /\ untilDelim = <<>> /\ untilStart = 0
    /\ untilLineComments = FALSE /\ untilRes = NotCalled
    /\ word \in ClassifyTexts
    /\ answer = NotCalled
    /\ NoLexer

CallIsRegexp ==
    /\ answer = NotCalled
    /\ answer' = [kind |-> "is_regexp", value |-> is_regexp(word)]
    /\ UNCHANGED <<state, streamVars, maxVars, untilVars, word, lexVars>>

CallIsKeyword ==
    /\ answer = NotCalled
    /\ answer' = [kind |-> "is_keyword", value |-> is_keyword(word)]
    /\ UNCHANGED <<state, streamVars, maxVars, untilVars, word, lexVars>>

CallIsPunctuator ==
    /\ answer = NotCalled
    /\ Len(word) = 1
    /\ answer' = [kind |-> "is_punctuator", value |-> is_punctuator(word[1])]
    /\ UNCHANGED <<state, streamVars, maxVars, untilVars, word, lexVars>>

NextClassify ==
    \/ CallIsRegexp
    \/ CallIsKeyword
    \/ CallIsPunctuator

SpecClassify == InitClassify /\ [][NextClassify]_vars

\* ---------------------------------------------------------------- claims

\* C1: resumability. Feeding a text in successive parse_from_state calls
\* against the retained state succeeds exactly when one call on the whole
\* text from a fresh state succeeds (the chunked scan succeeds when every
\* call does), and leaves the same state, field by field.
C1_Resumability ==
    LET whole == parse_from_state(fed, default) IN
    /\ whole.ok = ok
    /\ whole.state = state

\* a text fed in at least two chunks, with an open context carried over
C1_Witness ==
    /\ Len(fed) > MaxChunk
    /\ ret.kind = "bool"
    /\ ok
    /\ in_string(state)
    /\ state.round_depth > 0

\* C2: whenever parse_from_state or parse reports success no depth counter
\* is negative in the state it leaves; parse(")") is None.
C2_NoNegativeDepthOnSuccess ==
    /\ (ret.kind = "bool" /\ ret.value) => ~negative_depth(state)
    /\ (ret.kind = "Option" /\ ret.value # None)
           => ~negative_depth(ret.value[1])

ModeFlags ==
    {"line_comment", "block_comment", "single_quote", "double_quote", "regexp"}

\* C3: at most one of line_comment, block_comment, single_quote,
\* double_quote, regexp is set in any state reached char by char.
C3_ModeExclusive ==
    Cardinality({f \in ModeFlags : state[f]}) <= 1

\* a comment opened inside round brackets by the slash that had just been
\* taken for the start of a regex literal
C3_Witness ==
    /\ state.line_comment
    /\ state.round_depth = 1
    /\ Len(state.src) = 3

\* C10: a block comment ends with the two characters * / : when a state in
\* a block comment consumes * and then / the block comment is left.
C10_BlockCommentEnds ==
    LET n == Len(state.src) IN
    (/\ n >= 2
     /\ state.src[n - 1] = "*"
     /\ state.src[n] = "/"
     /\ scan(SubSeq(state.src, 1, n - 2), default).block_comment)
        => ~state.block_comment

\* the characters of text before 0-based position p, from position from
Between(text, from, p) == SubSeq(text, from + 1, p)

\* the positions whose character, once consumed, leaves a negative depth
NegativeAt(text) ==
    {i \in 0..(Len(text) - 1) :
        negative_depth(scan(SubSeq(text, 1, i + 1), default))}

FirstOf(S) == CHOOSE i \in S : \A j \in S : i <= j

\* C4: a block returned by parse_max starts at 0, ends at the position i of
\* the first character that makes a depth counter negative, and its text is
\* the first i characters.
C4_BlockBeforeUnmatchedClose ==
    maxRes.kind = "Some" =>
        /\ NegativeAt(maxSrc) # {}
        /\ maxRes.start = 0
        /\ maxRes.end = FirstOf(NegativeAt(maxSrc))
        /\ maxRes.src = SubSeq(maxSrc, 1, FirstOf(NegativeAt(maxSrc)))

\* C5: parse_max returns None exactly when no character of the text makes a
\* depth counter negative, and a block whenever one does, the last included.
C5_NoneIffNoUnmatchedClose ==
    maxRes # NotCalled =>
        /\ (maxRes.kind = "None") <=> (NegativeAt(maxSrc) = {})
        /\ (NegativeAt(maxSrc) # {}) => (maxRes.kind = "Some")

\* the needle lies in the haystack at position p
NeedleAt(p) ==
    /\ p + Len(untilDelim) <= Len(untilSrc)
    /\ SubSeq(untilSrc, p + 1, p + Len(untilDelim)) = untilDelim

\* the scan state at position p of a search begun at untilStart
StateAt(p) == scan(Between(untilSrc, untilStart, p), default)

Protected(s, line_comments) ==
    \/ s.single_quote \/ s.double_quote
    \/ s.regexp
    \/ s.block_comment
    \/ (~line_comments /\ s.line_comment)

\* the positions at which the search may stop
Qualifying(line_comments) ==
    {p \in untilStart..Len(untilSrc) :
        NeedleAt(p) /\ ~Protected(StateAt(p), line_comments)}

C7_FoundWheneverPresent ==
    (/\ untilRes # NotCalled
     /\ untilDelim # <<>>
     /\ Qualifying(untilLineComments) # {})
        => untilRes.kind = "Some"

\* C8: with the flag set a needle inside a line comment ends the search and
\* is returned; with the flag clear it is passed over.
C8_LineCommentFlagAsSpecified ==
    untilRes # NotCalled =>
        /\ (~untilLineComments /\ untilRes.kind = "Some")
               => ~StateAt(untilRes.end).line_comment
        /\ (/\ untilLineComments
            /\ Qualifying(TRUE) # {}
            /\ StateAt(FirstOf(Qualifying(TRUE))).line_comment)
               => /\ untilRes.kind = "Some"
                  /\ untilRes.end = FirstOf(Qualifying(TRUE))

\* C9: with line_comments set a delimiter inside a line comment is ignored.
C9_LineCommentFlagAsDocumented ==
    (untilLineComments /\ untilRes.kind = "Some")
        => ~StateAt(untilRes.end).line_comment

\* the reserved words of the scanner's description
ReservedWords ==
    {<<"i","f">>, <<"i","n">>, <<"d","o">>, <<"v","a","r">>,
     <<"f","o","r">>, <<"n","e","w">>, <<"t","r","y">>, <<"l","e","t">>,
     <<"t","h","i","s">>, <<"e","l","s","e">>, <<"c","a","s","e">>,
     <<"w","i","t","h">>, <<"e","n","u","m">>, <<"w","h","i","l","e">>,
     <<"b","r","e","a","k">>, <<"c","a","t","c","h">>,
     <<"t","h","r","o","w">>, <<"c","o","n","s","t">>,
     <<"y","i","e","l","d">>, <<"c","l","a","s","s">>,
     <<"s","u","p","e","r">>, <<"r","e","t","u","r","n">>,
     <<"t","y","p","e","o","f">>, <<"d","e","l","e","t","e">>,
     <<"s","w","i","t","c","h">>, <<"e","x","p","o","r","t">>,
     <<"i","m","p","o","r","t">>, <<"d","e","f","a","u","l","t">>,
     <<"f","i","n","a","l","l","y">>, <<"e","x","t","e","n","d","s">>,
     <<"f","u","n","c","t","i","o","n">>,
     <<"c","o","n","t","i","n","u","e">>,
     <<"d","e","b","u","g","g","e","r">>, <<"p","a","c","k","a","g","e">>,
     <<"p","r","i","v","a","t","e">>,
     <<"i","n","t","e","r","f","a","c","e">>,
     <<"i","n","s","t","a","n","c","e","o","f">>,
     <<"i","m","p","l","e","m","e","n","t","s">>,
     <<"p","r","o","t","e","c","t","e","d">>, <<"p","u","b","l","i","c">>,
     <<"s","t","a","t","i","c">>}

AllBlank(text) == \A i \in 1..Len(text) : text[i] \in WhiteSpace

\* C11: on an empty history, or one of blanks only, a slash is classified
\* as the start of a regex literal.
C11_RegexAtStartOfInput ==
    (answer.kind = "is_regexp" /\ AllBlank(word)) => answer.value

\* the text without its trailing blanks, and its trailing run of word
\* characters
Trimmed(text) ==
    SubSeq(text, 1,
           CHOOSE n \in 0..Len(text) :
               /\ n = 0 \/ text[n] \notin WhiteSpace
               /\ \A i \in (n + 1)..Len(text) : text[i] \in WhiteSpace)

TrailingWord(text) ==
    SubSeq(text,
           CHOOSE n \in 1..(Len(text) + 1) :
               /\ \A i \in n..Len(text) : text[i] \in WordChars
               /\ n = 1 \/ text[n - 1] \notin WordChars,
           Len(text))

Punctuators ==
    {".", "(", ")", ";", ",", "{", "}", "[", "]", ":", "?", "~", "%", "&",
     "*", "+", "-", "/", "<", ">", "^", "|", "!", "="}

\* C12: on a history that is not blank, a slash after ) is division, after
\* } or any other punctuator it starts a regex, and after anything else it
\* starts a regex exactly when the trailing word is a reserved word.
C12_RegexOrDivision ==
    (answer.kind = "is_regexp" /\ ~AllBlank(word)) =>
        LET history == Trimmed(word)
            last == history[Len(history)]
        IN  answer.value =
                IF last = ")" THEN FALSE
                ELSE IF last \in Punctuators THEN TRUE
                ELSE TrailingWord(history) \in ReservedWords

\* C13: is_keyword is true of the reserved words and of nothing else.
C13_KeywordIffReserved ==
    answer.kind = "is_keyword" => (answer.value <=> word \in ReservedWords)

\* the mode flags set in a state
ModesOf(s) == {f \in ModeFlags : s[f]}

\* C14: a text that ends inside a string, a comment or a regex literal, no
\* depth counter having gone negative, is scanned with success; the flag of
\* the open context is set in the state and in_nesting is true of it.
C14_UnterminatedIsSuccess ==
    /\ (/\ ret.kind = "bool"
        /\ NegativeAt(fed) = {}
        /\ ModesOf(scan(fed, default)) # {})
           => /\ ret.value
              /\ ok
              /\ ModesOf(state) = ModesOf(scan(fed, default))
              /\ in_nesting(state)
    /\ (/\ ret.kind = "Option"
        /\ NegativeAt(ret.src) = {}
        /\ ModesOf(scan(ret.src, default)) # {})
           => /\ ret.value # None
              /\ ModesOf(ret.value[1]) = ModesOf(scan(ret.src, default))
              /\ in_nesting(ret.value[1])

\* a text fed in chunks that ends in a line comment, all brackets closed
C14_Witness ==
    /\ ret.kind = "bool"
    /\ ret.value
    /\ Len(fed) > MaxChunk
    /\ state.line_comment
    /\ state.round_depth = 0

\* C15: no call aborts. parse_max returns None or a block whose text is
\* the characters before the unmatched closer, also when some of them take
\* more than one byte, and parse_until_with_options returns for every start
\* offset.
C15_NeverPanics ==
    /\ maxRes.kind # "Panic"
    /\ maxRes.kind = "Some" =>
           maxRes.src = SubSeq(maxSrc, 1, FirstOf(NegativeAt(maxSrc)))
    /\ untilRes.kind # "Panic"

\* ------------------------------------------------ calls on one Lexer

\* the input of tests::consume and the non-empty input of tests::eos
test_str ==
    <<"f", "u", "n", "c", "t", "i", "o", "n", " ", "t", "e", "s", "t", "f", "n", "(", ")", " ", "{", " ", "}">>
notend == <<"n", "o", "t", "e", "n", "d">>

InputAlphabet == {"a", "é"}
LexerInputs == Texts(InputAlphabet, MaxInput) \cup {test_str, notend}
\* the amounts of tests::consume among them
ConsumeAmounts == 0..MaxAmt \cup {5, 10}
IndentStacks == {[i \in 1..n |-> Token("Indent", 1)] : n \in 0..MaxIndent}
Stashes == Texts({Token("Outdent", 1), Token("Indent", 1)}, MaxStash)

\* a panic unwinds through the caller that holds the Lexer
Alive == lsRet.kind \notin {"Panic", "OutOfMemory"} /\ Len(lsLog) < MaxCalls

Call(op, amt, r) ==
    /\ ls' = r.ls
    /\ lsRet' = r.ret
    /\ lsLog' = Append(lsLog, [op |-> op, amt |-> amt, before |-> ls,
                               ret |-> r.ret])
    /\ UNCHANGED <<state, streamVars, maxVars, untilVars, classVars>>

InitLexer ==
    /\ state = default
    /\ Idle
    /\ \E input \in LexerInputs, indents \in IndentStacks :
           ls = [new(input) EXCEPT !.indent_stack = indents]
    /\ lsRet = NotCalled
    /\ lsLog = <<>>

CallConsume(amt) == Alive /\ Call("consume", amt, consume(ls, amt))

CallEos ==
    /\ Alive
    /\ LET r == eos(ls) IN
       Call("eos", 0, [ls |-> r.ls,
                       ret |-> [kind |-> "Option", value |-> r.ret]])

NextLexer ==
    \/ \E amt \in ConsumeAmounts : CallConsume(amt)
    \/ CallEos

SpecLexer == InitLexer /\ [][NextLexer]_vars

InitLookahead ==
    /\ state = default
    /\ Idle
    /\ \E input \in LexerInputs, stash \in Stashes :
           ls = [new(input) EXCEPT !.stash = stash]
    /\ lsRet = NotCalled
    /\ lsLog = <<>>

CallLookahead(amt) ==
    /\ Alive
    /\ \E build \in Builds : Call("lookahead", amt, lookahead(ls, amt, build))

NextLookahead == \E amt \in 0..MaxAmt : CallLookahead(amt)

SpecLookahead == InitLookahead /\ [][NextLookahead]_vars

\* ------------------------------------------------- one long scan, char by char
RunAlphabet == {"(", "/", "*", "\\", "\n"}

InitRun == Init

RunParseCharFromState(ch) ==
    /\ Len(state.src) < MaxRun
    /\ state' = parse_char_from_state(ch, state)
    /\ UNCHANGED <<streamVars, maxVars, untilVars, classVars, lexVars>>

NextRun == \E ch \in RunAlphabet : RunParseCharFromState(ch)

SpecRun == InitRun /\ [][NextRun]_vars

\* a parse_char_from_state step: the character it consumed and the state it
\* started from (parse_char starts from the default state)
Consumed == state'.src[Len(state'.src)]
Before == IF Len(state'.src) = 1 THEN default ELSE state
IsStep == state' # state /\ state'.src = Append(Before.src, Consumed)

DepthsOf(s) == <<s.round_depth, s.curly_depth, s.square_depth>>
BracketEffect(ch) ==
    CASE ch = "(" -> <<1, 0, 0>>
      [] ch = ")" -> <<-1, 0, 0>>
      [] ch = "{" -> <<0, 1, 0>>
      [] ch = "}" -> <<0, -1, 0>>
      [] ch = "[" -> <<0, 0, 1>>
      [] ch = "]" -> <<0, 0, -1>>
      [] OTHER -> <<0, 0, 0>>
DepthChange(s0, s1) == [i \in 1..3 |-> DepthsOf(s1)[i] - DepthsOf(s0)[i]]

\* C16: a step changes a depth counter only from a state with no string,
\* comment or regex flag set and only on one of ( ) { } [ ], and then it
\* changes the matching counter by +1 or -1 and no other; every other step
\* leaves the three counters as they were.
C16_DepthShielded ==
    [][IsStep =>
        DepthChange(Before, state') =
            IF ModesOf(Before) = {} THEN BracketEffect(Consumed)
            ELSE <<0, 0, 0>>]_vars

C16_Witness ==
    /\ state.single_quote
    /\ state.src = <<"(", "'", ")", "]">>
    /\ DepthsOf(state) = <<1, 0, 0>>

Closer(flag) == IF flag = "single_quote" THEN "'" ELSE "\""

\* C19: inside a string only its own quote, consumed while escaped is
\* false, ends the string; the quote after an unescaped backslash and the
\* other kind of quote leave it open, and no comment, regex literal or other
\* string starts inside it.
C19_StringHandling ==
    [][\A q \in {"single_quote", "double_quote"} :
            (IsStep /\ Before[q]) =>
                /\ state'[q] = ~(Consumed = Closer(q) /\ ~Before.escaped)
                /\ ModesOf(state') \subseteq {q}
                /\ ~state'[q] => ~state'.escaped]_vars

C19_Witness ==
    /\ state.src = <<"'", "\\", "'", "\"">>
    /\ ModesOf(state) = {"single_quote"}

\* the two calls of tests::section_including_regex
C20_Examples ==
    /\ parse_max(regex_section) =
           BracketBlock(0, 18, SubSeq(regex_section, 1, 18))
    /\ regex_section[19] = ")"
    /\ LET n == Len(regex_section_typeof) - Len(<<" ", "b", "i", "n", "g", " ", "b", "o", "n", "g">>)
       IN  /\ regex_section_typeof[n] = ")"
           /\ parse_max(regex_section_typeof) =
                  BracketBlock(0, n - 1, SubSeq(regex_section_typeof, 1, n - 1))

\* C20: a regex literal whose opening slash is not followed by / or * stays
\* open until a slash is consumed while escaped is false; the slash after an
\* unescaped backslash leaves it open, and brackets and quotes inside it
\* change no depth counter and start no other context, so that parse_max
\* returns the text before the unmatched ) for both texts of
\* tests::section_including_regex.
C20_RegexLiteralHandling ==
    [][/\ C20_Examples
       /\ (/\ IsStep
           /\ Before.regexp
           /\ ~(Before.regexp_start /\ Consumed \in {"/", "*"})) =>
                /\ state'.regexp = ~(Consumed = "/" /\ ~Before.escaped)
                /\ ModesOf(state') \subseteq {"regexp"}
                /\ DepthsOf(state') = DepthsOf(Before)]_vars

C20_Witness ==
    /\ state.src = <<"(", "/", "\\", "/">>
    /\ ModesOf(state) = {"regexp"}
    /\ DepthsOf(state) = <<1, 0, 0>>

\* C17: a step enters a comment only when the character consumed by the
\* step before it was a slash.
C17_CommentEntryAfterSlash ==
    [][(IsStep /\ ~in_comment(Before) /\ in_comment(state')) =>
           /\ Before.src # <<>>
           /\ Before.src[Len(Before.src)] = "/"]_vars

\* the state after the first p characters of the run
RunStateAt(p) == scan(SubSeq(state.src, 1, p), default)
EntersAt(p) == p >= 1 /\ ~in_comment(RunStateAt(p - 1)) /\ in_comment(RunStateAt(p))
\* positions of the characters of comments: both characters of an opener and
\* what is consumed while a comment flag is set, the ending character included
InComment(p) ==
    \/ in_comment(RunStateAt(p - 1))
    \/ EntersAt(p)
    \/ (p < Len(state.src) /\ EntersAt(p + 1))
RECURSIVE Outside(_)
Outside(p) ==
    IF p = 0 THEN <<>>
    ELSE IF InComment(p) THEN Outside(p - 1)
    ELSE Append(Outside(p - 1), state.src[p])

\* C18: history is, in input order, the consumed characters that are not
\* part of a comment.
C18_HistoryExcludesComments ==
    \/ state.src = <<>>
    \/ state.history = Outside(Len(state.src))

\* C21: from a state inside a line comment a newline clears line_comment
\* and leaves no mode flag set, no other character clears it, and no step
\* taken inside a line comment changes another mode flag, escaped or a
\* depth counter.
C21_LineCommentTermination ==
    [][(IsStep /\ Before.line_comment) =>
           /\ state'.line_comment = (Consumed # "\n")
           /\ ModesOf(state') \subseteq {"line_comment"}
           /\ ModesOf(Before) = {"line_comment"}
           /\ state'.escaped = Before.escaped
           /\ DepthsOf(state') = DepthsOf(Before)]_vars

C21_Witness ==
    /\ state.src = <<"/", "/", "(", "\n">>
    /\ ModesOf(state) = {}
    /\ DepthsOf(state) = <<0, 0, 0>>

\* the state before the last character of the scan was consumed
Previous == scan(SubSeq(state.src, 1, Len(state.src) - 1), default)
Last == state.src[Len(state.src)]
Literals == {"single_quote", "double_quote", "regexp"}

\* C22: escaped is true only inside a string or a regex literal, right
\* after a backslash that was consumed while escaped was false; so it is
\* false in normal mode and in comments, and false again one character after
\* the escaping backslash.
C22_EscapedOnlyAfterBackslash ==
    state.escaped =>
        /\ ModesOf(state) # {}
        /\ ModesOf(state) \subseteq Literals
        /\ state.src # <<>>
        /\ Last = "\\"
        /\ ~Previous.escaped

C22_Witness ==
    /\ state.src = <<"'", "\\", "\\", "\\">>
    /\ state.escaped
    /\ state.single_quote

\* C23: regexp_start is set only together with regexp and only in the state
\* made by the step that entered the regex literal; the step after it clears
\* it, and when that step consumes / or * the literal is dropped, a line or
\* block comment is entered and the opening slash leaves history.
C23_RegexpStartOneStep ==
    /\ state.regexp_start =>
           /\ state.regexp
           /\ state.src # <<>>
           /\ Last = "/"
           /\ ~Previous.regexp
    /\ (state.src # <<>> /\ Previous.regexp_start) =>
           /\ ~state.regexp_start
           /\ Last \in {"/", "*"} =>
                  /\ ~state.regexp
                  /\ ModesOf(state) =
                         {IF Last = "/" THEN "line_comment" ELSE "block_comment"}
                  /\ Previous.history = Append(state.history, "/")

C23_Witness ==
    /\ state.src = <<"(", "/", "*">>
    /\ state.block_comment
    /\ state.history = <<"(">>

\* a parse_from_state call on a non-empty text, and that text
IsParseFromState ==
    /\ ret'.kind = "bool"
    /\ Len(fed') > Len(fed)
    /\ SubSeq(fed', 1, Len(fed)) = fed
Chunk == SubSeq(fed', Len(fed) + 1, Len(fed'))

\* C24: parse_from_state called with a non-empty text on a state with a
\* negative depth counter returns false and leaves the state as it was; a
\* call that fails leaves the state as it was right after the first
\* character that made a counter negative, no later character applied.
C24_FailureConsumesNothing ==
    [][IsParseFromState =>
           /\ negative_depth(state) => (~ret'.value /\ state' = state)
           /\ ~ret'.value =>
                  \E k \in 0..Len(Chunk) :
                      /\ state' = scan(SubSeq(Chunk, 1, k), state)
                      /\ negative_depth(state')
                      /\ \A j \in 0..(k - 1) :
                             ~negative_depth(scan(SubSeq(Chunk, 1, j), state))]_vars

C24_Witness ==
    /\ ret.kind = "bool" /\ ~ret.value
    /\ fed = <<"(", ")", ")", ")">>
    /\ state.src = <<"(", ")", ")">>

\* the bytes of a text, each named by its character and its place in it
RECURSIVE Bytes(_)
Bytes(s) ==
    IF s = <<>> THEN <<>>
    ELSE Bytes(SubSeq(s, 1, Len(s) - 1))
             \o [i \in 1..len_utf8(s[Len(s)]) |-> <<s[Len(s)], i>>]

IsConsume(e) == e.op = "consume"
Returned(e) == e.ret.kind = "str"
RECURSIVE Amounts(_)
Amounts(log) == IF log = <<>> THEN 0 ELSE log[1].amt + Amounts(Tail(log))
RECURSIVE Slices(_)
Slices(log) == IF log = <<>> THEN <<>> ELSE log[1].ret.value \o Slices(Tail(log))
\* the lexer as the i-th call left it
LexerAfter(i) == IF i = Len(lsLog) THEN ls ELSE lsLog[i + 1].before

\* C25: consume(amt) moves position forward by amt and what it returns is
\* the input from the old position to the new one; after any calls position
\* is the sum of the amounts and the slices returned, in call order, make the
\* prefix of the input of that length: consume(10) and consume(5) on
\* "function testfn() { }" return "function t" and "estfn", position 15.
C25_ConsumeAdvances ==
    LET consumed == SelectSeq(lsLog, IsConsume)
        returned == SelectSeq(consumed, Returned)
    IN  /\ ls.position = Amounts(consumed)
        /\ \A i \in 1..Len(lsLog) :
               IsConsume(lsLog[i]) =>
                   LET e == lsLog[i] IN
                   /\ LexerAfter(i) = [e.before EXCEPT !.position = @ + e.amt]
                   /\ Returned(e) =>
                          Bytes(e.ret.value) =
                              SubSeq(Bytes(ls.input), e.before.position + 1,
                                     e.before.position + e.amt)
        /\ Bytes(Slices(returned)) =
               SubSeq(Bytes(ls.input), 1, Amounts(returned))
        /\ (ls.input = test_str /\ Len(consumed) = 2
            /\ consumed[1].amt = 10 /\ consumed[2].amt = 5) =>
               /\ consumed[1].ret.value =
                      <<"f", "u", "n", "c", "t", "i", "o", "n", " ", "t">>
               /\ consumed[2].ret.value = <<"e", "s", "t", "f", "n">>
               /\ ls.position = 15

C25_Witness ==
    /\ ls.input = test_str
    /\ Len(lsLog) = 2
    /\ lsLog[1].op = "consume" /\ lsLog[1].amt = 10
    /\ lsLog[2].op = "consume" /\ lsLog[2].amt = 5
    /\ lsRet = [kind |-> "str", value |-> <<"e", "s", "t", "f", "n">>]
    /\ ls.position = 15

IsEos(e) == e.op = "eos"
AtEnd(e) == e.ret.value # None
\* the lexer as it was constructed
Constructed == IF lsLog = <<>> THEN ls ELSE lsLog[1].before

\* C26: away from the end of the input eos yields None and changes nothing
\* of the lexer; at the end it pops one entry of indent_stack and yields
\* Outdent while there is one, and yields EndOfSource with increments 0 and
\* 0 once there is none: the calls made at the end yield one Outdent for
\* each indent open at the start and EndOfSource from then on.
C26_EosOutdentsThenEnd ==
    /\ \A i \in 1..Len(lsLog) :
           IsEos(lsLog[i]) =>
               LET b == lsLog[i].before
                   a == LexerAfter(i)
                   r == lsLog[i].ret.value
               IN  IF b.position # Len(Bytes(b.input))
                   THEN r = None /\ a = b
                   ELSE IF b.indent_stack # <<>>
                   THEN /\ r # None
                        /\ r[1].token.token_type = "Outdent"
                        /\ a = [b EXCEPT !.indent_stack =
                                             SubSeq(@, 1, Len(@) - 1)]
                   ELSE /\ r = Some(TokenResult(
                                     Token("EndOfSource", b.line_number), 0, 0))
                        /\ a = b
    /\ LET yielded == SelectSeq(SelectSeq(lsLog, IsEos), AtEnd) IN
       \A k \in 1..Len(yielded) :
           yielded[k].ret.value[1].token.token_type =
               IF k <= Len(Constructed.indent_stack) THEN "Outdent"
               ELSE "EndOfSource"

C26_Witness ==
    /\ Len(lsLog) = MaxIndent + 2
    /\ \A i \in 1..Len(lsLog) : IsEos(lsLog[i])
    /\ Len(Constructed.indent_stack) = MaxIndent
    /\ \A i \in 1..Len(lsLog) : AtEnd(lsLog[i])
    /\ lsLog[MaxIndent].ret.value[1].token.token_type = "Outdent"
    /\ lsLog[MaxIndent + 1].ret.value[1].token.token_type = "EndOfSource"
    /\ lsRet.value[1].token.token_type = "EndOfSource"

\* C27: lookahead(amt), amt >= 1, returns the amt-th token of the stash
\* whatever the stash holds: it neither indexes out of bounds nor
\* underflows, leaves at least amt tokens in the stash with those that were
\* there in place, and fills in the missing ones from next().
C27_LookaheadInBounds ==
    \A i \in 1..Len(lsLog) :
        (lsLog[i].op = "lookahead" /\ lsLog[i].amt >= 1) =>
            LET b == lsLog[i].before
                a == LexerAfter(i)
                amt == lsLog[i].amt
            IN  /\ lsLog[i].ret.kind = "Token"
                /\ Len(a.stash) >= amt
                /\ SubSeq(a.stash, 1, Len(b.stash)) = b.stash
                /\ \A k \in (Len(b.stash) + 1)..Len(a.stash) :
                       a.stash[k] = Token("Outdent", b.line_number)
                /\ lsLog[i].ret.value = a.stash[amt]

====
